---------------------------- MODULE Spec2Model ----------------------------
(***************************************************************************)
(* State-machine model of src/main.py: a FastAPI gateway with five         *)
(* API-key protected routes, an open /health route, and a keep-alive       *)
(* background task whose life is tied to the application's lifespan.       *)
(*                                                                         *)
(* Scheduling: everything runs on one asyncio event loop.  A coroutine     *)
(* runs without interruption from one await to the next, so every action   *)
(* below is the code between two suspension points.  The route handlers    *)
(* contain no await on an upstream call (googleapiclient and               *)
(* youtube_transcript_api are synchronous), so one request is one action.  *)
(*                                                                         *)
(* Time is counted in seconds.  asyncio.CancelledError derives from        *)
(* BaseException, not from Exception (Python >= 3.8, which the             *)
(* youtube_transcript_api instance API used at lines 147-148 requires).    *)
(***************************************************************************)
EXTENDS Integers, Sequences, FiniteSets, TLC

VARIABLES
    tasks,        \* the asyncio tasks created so far, in creation order
    ping_task,    \* the global ping_task: 0 is None, else an index of tasks
    lifespan_pc,  \* where the lifespan context manager stands
    serverReady,  \* the server accepts connections (startup has completed)
    env_API_KEY,  \* the API_KEY environment variable, or Unset
    response      \* the response to the request handled last, with its request

vars == <<tasks, ping_task, lifespan_pc, serverReady, env_API_KEY, response>>

-----------------------------------------------------------------------------
(* Bounds of the model *)

\* random.randint(a, b) is modelled by JitterSteps + 1 evenly spread outcomes,
\* both ends included.
JitterSteps == 3

\* The ping's round trip takes 0 .. MaxLatency seconds.
MaxLatency == 1

(* Program constants *)

JitterMin == 420
JitterMax == 720
ErrorPause == 300

-----------------------------------------------------------------------------
(* Python's exception classes, as far as the program meets them *)

BaseOf(cls) ==
    CASE cls = "Exception"        -> "BaseException"
      [] cls = "CancelledError"   -> "BaseException"
      [] cls = "HTTPException"    -> "Exception"
      [] cls = "HttpError"        -> "Exception"
      [] cls = "KeyError"         -> "Exception"
      [] cls = "CouldNotRetrieveTranscript" -> "Exception"
      [] cls = "ConnectError"     -> "Exception"
      [] cls = "TimeoutException" -> "Exception"
      [] OTHER                    -> "BaseException"

RECURSIVE IsSubclass(_, _)
IsSubclass(cls, of) ==
    IF cls = of THEN TRUE
    ELSE IF cls = "BaseException" THEN FALSE
    ELSE IsSubclass(BaseOf(cls), of)

\* A handler that catches Exception on Python < 3.8, where CancelledError was
\* an Exception.
KeepAliveCatches_Py37(cls) == IsSubclass(cls, "Exception") \/ cls = "CancelledError"

\* A handler that catches only network errors.
KeepAliveCatches_Narrow(cls) == cls = "ConnectError"

\* `except Exception as e` of keep_alive
KeepAliveCatches(cls) == IsSubclass(cls, "Exception")

-----------------------------------------------------------------------------
(* The keep-alive task *)

\* random.randint(0, b): a lower end of 0
RandInt_FromZero(a, b) == {((k * b) \div JitterSteps) : k \in 0..JitterSteps}

\* random.randint(a, b): an integer N with a <= N <= b
RandInt(a, b) == {a + ((k * (b - a)) \div JitterSteps) : k \in 0..JitterSteps}

\* The errors client.get can raise
PingErrors == {"ConnectError", "TimeoutException"}

Tasks == 1..Len(tasks)

\* asyncio.create_task(keep_alive()): the task is scheduled, its coroutine has
\* not run yet.
NewTask ==
    [pc              |-> "created",
     interval        |-> 0,       \* the interval sampled in this iteration
     slept           |-> 0,       \* seconds of it slept so far
     elapsed         |-> 0,       \* seconds since the last ping was issued
     gap             |-> 0,       \* elapsed, when the ping in flight was issued
     prev            |-> "none",  \* how the ping before this point ended
     paused          |-> 0,       \* seconds paused since that ping ended
     must_cancel     |-> FALSE,   \* a cancellation waits to be thrown
     cancelRequested |-> FALSE,   \* cancel() has been called (never reset)
     cancelledIn     |-> "none",  \* the pc at which cancel() found the task
     exc             |-> "none"]  \* the exception the task ended with

Done(t) == tasks[t].pc \in {"cancelled", "crashed"}

\* A task whose sleep or request completes although it was cancelled
Runnable_IgnoreCancel(t) == ~Done(t)

\* The task may run its next step: it has not ended, and no cancellation is
\* waiting (a cancelled sleep or request never completes).
Runnable(t) == ~Done(t) /\ ~tasks[t].must_cancel

\* Top of the loop: sample the interval and suspend in asyncio.sleep(interval).
StartIteration(task, i) ==
    [task EXCEPT !.pc = "sleeping", !.interval = i, !.slept = 0]

\* First step of the coroutine: lines 47-57
TaskStart(t) ==
    /\ Runnable(t)
    /\ tasks[t].pc = "created"
    /\ \E i \in RandInt(JitterMin, JitterMax) :
          tasks' = [tasks EXCEPT ![t] = StartIteration(@, i)]
    /\ UNCHANGED <<ping_task, lifespan_pc, serverReady, env_API_KEY, response>>

\* The jittered sleep returns and the GET is sent: lines 57-61
SleepDone(t) ==
    /\ Runnable(t)
    /\ tasks[t].pc = "sleeping"
    /\ tasks' = [tasks EXCEPT ![t] =
                    [@ EXCEPT !.pc = "pinging",
                              !.slept = @ + tasks[t].interval,
                              !.gap = tasks[t].elapsed + tasks[t].interval,
                              !.elapsed = 0]]
    /\ UNCHANGED <<ping_task, lifespan_pc, serverReady, env_API_KEY, response>>

\* A response arrives, whatever its status code; it is logged and the loop
\* starts over: lines 61-62, 50-57
PingOk(t) ==
    /\ Runnable(t)
    /\ tasks[t].pc = "pinging"
    /\ \E d \in 0..MaxLatency, i \in RandInt(JitterMin, JitterMax) :
          tasks' = [tasks EXCEPT ![t] =
                       StartIteration([@ EXCEPT !.prev = "ok", !.paused = 0,
                                                !.gap = 0, !.elapsed = @ + d], i)]
    /\ UNCHANGED <<ping_task, lifespan_pc, serverReady, env_API_KEY, response>>

\* What raising cls inside the try block of the loop leads to: the except
\* clause logs it and suspends in asyncio.sleep(300), or the task ends.
RaiseInTry(task, cls) ==
    IF KeepAliveCatches(cls)
    THEN [task EXCEPT !.pc = "pausing"]
    ELSE [task EXCEPT !.pc = IF cls = "CancelledError" THEN "cancelled" ELSE "crashed",
                      !.exc = cls]

\* client.get raises: lines 61, 64-67
PingFail(t) ==
    /\ Runnable(t)
    /\ tasks[t].pc = "pinging"
    /\ \E d \in 0..MaxLatency, e \in PingErrors :
          tasks' = [tasks EXCEPT ![t] =
                       RaiseInTry([@ EXCEPT !.prev = "failed", !.paused = 0,
                                            !.gap = 0, !.elapsed = @ + d], e)]
    /\ UNCHANGED <<ping_task, lifespan_pc, serverReady, env_API_KEY, response>>

\* The pause after a failure returns and the loop starts over: lines 67, 50-57
PauseDone(t) ==
    /\ Runnable(t)
    /\ tasks[t].pc = "pausing"
    /\ \E i \in RandInt(JitterMin, JitterMax) :
          tasks' = [tasks EXCEPT ![t] =
                       StartIteration([@ EXCEPT !.paused = @ + ErrorPause,
                                                !.elapsed = @ + ErrorPause], i)]
    /\ UNCHANGED <<ping_task, lifespan_pc, serverReady, env_API_KEY, response>>

\* The event loop throws CancelledError into the task where it is suspended.
\* Before the first step and in the except clause nothing catches it; in the
\* try block the except clause decides.
Cancelled(task) ==
    LET delivered == [task EXCEPT !.must_cancel = FALSE]
    IN  IF task.pc \in {"sleeping", "pinging"}
        THEN RaiseInTry(delivered, "CancelledError")
        ELSE [delivered EXCEPT !.pc = "cancelled", !.exc = "CancelledError"]

TaskCancelled(t) ==
    /\ ~Done(t)
    /\ tasks[t].must_cancel
    /\ tasks' = [tasks EXCEPT ![t] = Cancelled(@)]
    /\ UNCHANGED <<ping_task, lifespan_pc, serverReady, env_API_KEY, response>>

-----------------------------------------------------------------------------
(* The lifespan of the application *)

\* Task.cancel(): a task that has ended is left alone.
Cancel(task) ==
    IF task.pc \in {"cancelled", "crashed"} THEN task
    ELSE [task EXCEPT !.must_cancel = TRUE, !.cancelRequested = TRUE,
                      !.cancelledIn = task.pc]

\* A startup that creates the task twice
StartupTasks_Twice == <<NewTask, NewTask>>

\* A startup that creates no task
StartupTasks_None == <<>>

\* The tasks lifespan creates before it yields: line 25
StartupTasks == <<NewTask>>

\* Startup: lines 24-27.  The context manager runs to its yield.
LifespanStartup ==
    /\ lifespan_pc = "start"
    /\ tasks' = tasks \o StartupTasks
    /\ ping_task' = Len(tasks')
    /\ lifespan_pc' = "yielded"
    /\ UNCHANGED <<serverReady, env_API_KEY, response>>

\* The server, told that startup is complete, begins to accept connections.
ServerReady ==
    /\ lifespan_pc = "yielded"
    /\ ~serverReady
    /\ serverReady' = TRUE
    /\ UNCHANGED <<tasks, ping_task, lifespan_pc, env_API_KEY, response>>

\* Shutdown resumes lifespan after the yield: lines 30-33, up to the await.
LifespanShutdown ==
    /\ lifespan_pc = "yielded"
    /\ serverReady' = FALSE
    /\ IF ping_task # 0
       THEN /\ tasks' = [tasks EXCEPT ![ping_task] = Cancel(@)]
            /\ lifespan_pc' = "awaiting"
       ELSE /\ tasks' = tasks
            /\ lifespan_pc' = "done"
    /\ UNCHANGED <<ping_task, env_API_KEY, response>>

\* What `await ping_task` leads to once the task has ended: lines 33-35
AwaitResult(task) ==
    IF task.exc = "CancelledError" THEN "done" ELSE "failed"

\* A shutdown that cancels the task and does not wait for it
LifespanFinish_NoAwait ==
    /\ lifespan_pc = "awaiting"
    /\ lifespan_pc' = "done"
    /\ UNCHANGED <<tasks, ping_task, serverReady, env_API_KEY, response>>

\* `await ping_task` resumes once the task has ended, and raises what the
\* task ended with: lines 33-35
LifespanFinish ==
    /\ lifespan_pc = "awaiting"
    /\ Done(ping_task)
    /\ lifespan_pc' = AwaitResult(tasks[ping_task])
    /\ UNCHANGED <<tasks, ping_task, serverReady, env_API_KEY, response>>

-----------------------------------------------------------------------------
(* Python values the route handlers pass around *)

None == "<None>"
Unset == "<unset>"

\* os.environ.get(name, default)
EnvGet(value, default) == IF value = Unset THEN default ELSE value

HTTPException(code, text) ==
    [cls |-> "HTTPException", status_code |-> code, detail |-> text]

Error(c, text) == [cls |-> c, msg |-> text]

NoError == Error("none", "")

\* str(e).  An HTTPException prints as "<status_code>: <detail>", any other
\* exception as its message.
Str(e) ==
    IF e.cls = "HTTPException"
    THEN ToString(e.status_code) \o ": " \o e.detail
    ELSE e.msg

\* The outcome of running a block of code
Returned(v) == [raised |-> FALSE, value |-> v]
Raised(e) == [raised |-> TRUE, exc |-> e]

-----------------------------------------------------------------------------
(* The auth gate *)

\* A gate that lets a request without the header through
get_api_key_AllowMissing(api_key, env) ==
    IF api_key # None /\ api_key # EnvGet(env, "your-api-key-here")
    THEN Raised(HTTPException(403, "Could not validate API key"))
    ELSE Returned(api_key)

\* get_api_key: lines 77-80
get_api_key(api_key, env) ==
    IF api_key # EnvGet(env, "your-api-key-here")
    THEN Raised(HTTPException(403, "Could not validate API key"))
    ELSE Returned(api_key)

-----------------------------------------------------------------------------
(* The upstream providers, as the handlers see them *)

Video == [snippet |-> [title |-> "A title", thumbnails |-> "thumbnail set"]]

\* What youtube.videos().list(part, id).execute() does: it raises, or returns
\* a dictionary, which may lack the key 'items'.
MetadataOutcomes ==
    {[raises |-> Error("HttpError", "quota exceeded"), has_items |-> FALSE, items |-> <<>>],
     [raises |-> NoError, has_items |-> FALSE, items |-> <<>>],
     [raises |-> NoError, has_items |-> TRUE,  items |-> <<>>],
     [raises |-> NoError, has_items |-> TRUE,  items |-> <<Video>>]}

LanguageName(code) ==
    CASE code = "en" -> "English"
      [] code = "es" -> "Spanish"
      [] code = "fr" -> "French"
      [] OTHER       -> code

\* The state of the transcript provider for the video asked for
TranscriptOutcomes ==
    [list_raises   : {NoError, Error("CouldNotRetrieveTranscript", "video unavailable")},
     available     : {{"es"}, {"en", "es"}},
     translatable  : BOOLEAN,
     fetch_raises  : {NoError, Error("CouldNotRetrieveTranscript", "request blocked")}]

LanguageLists == {<<"en">>, <<"en", "es">>, <<"de">>}

TargetLanguages == {"fr", "xx"}

TranslationLanguages == {"fr"}

Transcript(code, up) ==
    [video_id |-> "vid", language |-> LanguageName(code), language_code |-> code,
     is_generated |-> FALSE, is_translatable |-> up.translatable,
     translation_languages |->
        IF up.translatable
        THEN {[language |-> LanguageName(c), language_code |-> c] : c \in TranslationLanguages}
        ELSE {}]

\* TranscriptList.find_transcript: the first language code of the list that
\* has a transcript wins.
RECURSIVE find_transcript(_, _)
find_transcript(up, languages) ==
    IF languages = <<>>
    THEN Raised(Error("CouldNotRetrieveTranscript", "no transcript found"))
    ELSE IF Head(languages) \in up.available
    THEN Returned(Transcript(Head(languages), up))
    ELSE find_transcript(up, Tail(languages))

\* Transcript.translate
translate(transcript, target_language) ==
    IF ~transcript.is_translatable
    THEN Raised(Error("CouldNotRetrieveTranscript", "not translatable"))
    ELSE IF target_language \notin TranslationLanguages
    THEN Raised(Error("CouldNotRetrieveTranscript", "translation language not available"))
    ELSE Returned([transcript EXCEPT !.language = LanguageName(target_language),
                                     !.language_code = target_language])

\* Transcript.fetch and the JSON object the handler builds from the result
\* (lines 155-161 and 221-227)
FetchedResponse(transcript) ==
    [transcript |-> <<"snippet">>, video_id |-> transcript.video_id,
     language |-> transcript.language, language_code |-> transcript.language_code,
     is_generated |-> transcript.is_generated]

-----------------------------------------------------------------------------
(* The bodies of the route handlers' try blocks.  Each gives the outcome of   *)
(* the block, the upstream calls made, the error an upstream call raised      *)
(* (NoError if none did) and whether the provider returned no items.          *)

Ran(outcome, calls, err, empty) ==
    [outcome |-> outcome, calls |-> calls, upstream_error |-> err, empty_items |-> empty]

\* Lines 97-107 and 121-131; field is "title" or "thumbnails"
MetadataBody(up, field) ==
    LET calls == <<"videos.list">>
    IN  IF up.raises # NoError THEN Ran(Raised(up.raises), calls, up.raises, FALSE)
        ELSE IF ~up.has_items
        THEN Ran(Raised(Error("KeyError", "'items'")), calls, Error("KeyError", "'items'"), FALSE)
        ELSE IF up.items = <<>>
        THEN Ran(Raised(HTTPException(404, "Video not found")), calls, NoError, TRUE)
        ELSE IF field = "title"
        THEN Ran(Returned([title |-> up.items[1].snippet.title]), calls, NoError, FALSE)
        ELSE Ran(Returned([thumbnails |-> up.items[1].snippet.thumbnails]), calls, NoError, FALSE)

\* Lines 147-163: YouTubeTranscriptApi.fetch lists, finds, then fetches.
TranscriptBody(up, languages) ==
    IF up.list_raises # NoError
    THEN Ran(Raised(up.list_raises), <<"list">>, up.list_raises, FALSE)
    ELSE LET found == find_transcript(up, languages)
         IN  IF found.raised
             THEN Ran(found, <<"list">>, found.exc, FALSE)
             ELSE IF up.fetch_raises # NoError
             THEN Ran(Raised(up.fetch_raises), <<"list", "fetch">>, up.fetch_raises, FALSE)
             ELSE Ran(Returned(FetchedResponse(found.value)), <<"list", "fetch">>,
                      NoError, FALSE)

\* Lines 177-194
ListBody(up) ==
    IF up.list_raises # NoError
    THEN Ran(Raised(up.list_raises), <<"list">>, up.list_raises, FALSE)
    ELSE Ran(Returned([transcripts |-> {Transcript(c, up) : c \in up.available}]),
             <<"list">>, NoError, FALSE)

\* Lines 210-229
TranslateBody(up, source_languages, target_language) ==
    IF up.list_raises # NoError
    THEN Ran(Raised(up.list_raises), <<"list">>, up.list_raises, FALSE)
    ELSE LET found == find_transcript(up, source_languages)
         IN  IF found.raised
             THEN Ran(found, <<"list">>, found.exc, FALSE)
             ELSE LET translated == translate(found.value, target_language)
                  IN  IF translated.raised
                      THEN Ran(translated, <<"list">>, translated.exc, FALSE)
                      ELSE IF up.fetch_raises # NoError
                      THEN Ran(Raised(up.fetch_raises), <<"list", "fetch">>,
                               up.fetch_raises, FALSE)
                      ELSE Ran(Returned(FetchedResponse(translated.value)),
                               <<"list", "fetch">>, NoError, FALSE)

\* An except clause with a fixed detail
RouteExcept_FixedDetail(outcome) ==
    IF outcome.raised /\ IsSubclass(outcome.exc.cls, "Exception")
    THEN Raised(HTTPException(500, "Internal Server Error"))
    ELSE outcome

\* `except Exception as e: raise HTTPException(status_code=500, detail=str(e))`
\* of every protected handler: lines 109-110, 133-134, 165-166, 196-197, 231-232
RouteExcept(outcome) ==
    IF outcome.raised /\ IsSubclass(outcome.exc.cls, "Exception")
    THEN Raised(HTTPException(500, Str(outcome.exc)))
    ELSE outcome

-----------------------------------------------------------------------------
(* Requests *)

ProtectedRoutes ==
    {"/get_title", "/get_thumbnail", "/get_transcript", "/list_transcripts",
     "/translate_transcript"}

Routes == ProtectedRoutes \cup {"/health"}

ApiKeys == {None, "s3cret", "your-api-key-here"}

\* A request: the route, the X-API-Key header (None if absent), the query
\* parameters the route reads besides video_id, and what the upstream provider
\* will do when called.
NoMetadata == [raises |-> NoError, has_items |-> FALSE, items |-> <<>>]

Requests ==
    [route : {"/get_title", "/get_thumbnail"}, api_key : ApiKeys,
     languages : {<<"en">>}, target_language : {"fr"}, up : MetadataOutcomes]
    \cup
    [route : {"/get_transcript"}, api_key : ApiKeys,
     languages : LanguageLists, target_language : {"fr"},
     up : {u \in TranscriptOutcomes : u.translatable}]
    \cup
    [route : {"/list_transcripts"}, api_key : ApiKeys,
     languages : {<<"en">>}, target_language : {"fr"},
     up : {u \in TranscriptOutcomes : u.fetch_raises = NoError}]
    \cup
    [route : {"/translate_transcript"}, api_key : ApiKeys,
     languages : LanguageLists, target_language : TargetLanguages,
     up : TranscriptOutcomes]
    \cup
    [route : {"/health"}, api_key : ApiKeys,
     languages : {<<"en">>}, target_language : {"fr"}, up : {NoMetadata}]

\* The handler of a protected route, from its try to its except
Handler(req) ==
    LET ran == CASE req.route = "/get_title"     -> MetadataBody(req.up, "title")
                 [] req.route = "/get_thumbnail" -> MetadataBody(req.up, "thumbnails")
                 [] req.route = "/get_transcript" -> TranscriptBody(req.up, req.languages)
                 [] req.route = "/list_transcripts" -> ListBody(req.up)
                 [] req.route = "/translate_transcript" ->
                        TranslateBody(req.up, req.languages, req.target_language)
    IN  [ran EXCEPT !.outcome = RouteExcept(@)]

\* health_check: lines 83-85
health_check ==
    Ran(Returned([status |-> "ok", message |-> "Service is running"]), <<>>, NoError, FALSE)

NotRun(outcome) == Ran(outcome, <<>>, NoError, FALSE)

\* The framework's dispatch of a request: Depends(get_api_key) is solved
\* first, and the handler is called only if it returns
\* (lines 88-92, 112-116, 136-142, 168-172, 199-205).
Dispatch(req, env) ==
    IF req.route = "/health" THEN health_check
    ELSE LET auth == get_api_key(req.api_key, env)
         IN  IF auth.raised THEN NotRun(auth) ELSE Handler(req)

\* The HTTP response made of the outcome: a raised HTTPException gives its
\* status code and a body {"detail": ...}; a returned value is the body of a 200.
HttpResponse(outcome) ==
    IF ~outcome.raised THEN [status |-> 200, body |-> outcome.value]
    ELSE IF outcome.exc.cls = "HTTPException"
    THEN [status |-> outcome.exc.status_code, detail |-> outcome.exc.detail]
    ELSE [status |-> 500, detail |-> "Internal Server Error"]

\* What is kept of a handled request
Handled(req, env) ==
    LET ran == Dispatch(req, env)
    IN  [route          |-> req.route,
         api_key        |-> req.api_key,
         calls          |-> ran.calls,
         upstream_error |-> ran.upstream_error,
         empty_items    |-> ran.empty_items,
         http           |-> HttpResponse(ran.outcome)]

\* One request, from its arrival to its response.  No handler awaits an
\* upstream call, so nothing else runs in between.
Request ==
    /\ lifespan_pc = "yielded"
    /\ serverReady
    /\ \E req \in Requests : response' = Handled(req, env_API_KEY)
    /\ UNCHANGED <<tasks, ping_task, lifespan_pc, serverReady, env_API_KEY>>

-----------------------------------------------------------------------------
NoResponse == [route |-> "none"]

Init ==
    /\ tasks = <<>>
    /\ ping_task = 0
    /\ lifespan_pc = "start"
    /\ serverReady = FALSE
    /\ env_API_KEY \in {Unset, "s3cret"}
    /\ response = NoResponse

Next ==
    \/ LifespanStartup
    \/ ServerReady
    \/ LifespanShutdown
    \/ LifespanFinish
    \/ \E t \in Tasks : TaskStart(t)
    \/ \E t \in Tasks : SleepDone(t)
    \/ \E t \in Tasks : PingOk(t)
    \/ \E t \in Tasks : PingFail(t)
    \/ \E t \in Tasks : PauseDone(t)
    \/ \E t \in Tasks : TaskCancelled(t)
    \/ Request

Spec == Init /\ [][Next]_vars

\* The event loop runs every callback that is ready: a cancellation that has
\* been requested is thrown, and a coroutine whose awaited task has ended
\* is resumed.
FairSpec ==
    /\ Spec
    /\ WF_vars(\E t \in Tasks : TaskCancelled(t))
    /\ WF_vars(LifespanFinish)

-----------------------------------------------------------------------------
(* Properties *)

ConfiguredSecret == EnvGet(env_API_KEY, "your-api-key-here")

ProtectedHandled == response.route \in ProtectedRoutes

Authenticated == ProtectedHandled /\ response.api_key = ConfiguredSecret

\* C1: a request to a protected route whose X-API-Key header is missing or
\* differs from the configured secret is answered 403, and no upstream call is
\* made for it.
C1_Forbidden ==
    (ProtectedHandled /\ response.api_key # ConfiguredSecret)
        => /\ response.http.status = 403
           /\ response.calls = <<>>

C1_Witness ==
    /\ response.route = "/get_transcript"
    /\ response.api_key = None
    /\ response.http.status = 403

\* C2: an authenticated /get_title or /get_thumbnail request for which the
\* provider returns no items is answered exactly 404 with detail
\* "Video not found".
C2_NotFound ==
    (Authenticated /\ response.route \in {"/get_title", "/get_thumbnail"}
                   /\ response.empty_items)
        => /\ response.http.status = 404
           /\ response.http.detail = "Video not found"

\* C3: an authenticated request to a protected route whose upstream operation
\* raises an error is answered 500 with the error's text as detail, and
\* carries no success body.
C3_UpstreamError ==
    (Authenticated /\ response.upstream_error # NoError)
        => /\ response.http.status = 500
           /\ response.http.detail = response.upstream_error.msg
           /\ "body" \notin DOMAIN response.http

C3_Witness ==
    /\ Authenticated
    /\ response.route = "/translate_transcript"
    /\ response.upstream_error.msg = "request blocked"
    /\ response.calls = <<"list", "fetch">>
    /\ response.http.status = 500

\* C4: a failed ping never ends the task: the task pauses once for 300
\* seconds, then samples a fresh interval, sleeps for it and only then pings
\* again; the task ends only by cancellation.
C4_FailurePause ==
    \A t \in Tasks :
        LET task == tasks[t]
        IN  /\ task.pc # "crashed"
            /\ task.pc = "cancelled" => (task.cancelRequested /\ task.exc = "CancelledError")
            /\ task.pc = "pausing" => (task.prev = "failed" /\ task.paused = 0)
            /\ (task.pc \in {"sleeping", "pinging"} /\ task.prev = "failed")
                   => /\ task.paused = ErrorPause
                      /\ task.interval \in JitterMin..JitterMax
            /\ (task.pc = "pinging" /\ task.prev = "failed")
                   => /\ task.slept = task.interval
                      /\ task.gap >= ErrorPause + task.interval
            /\ (task.pc \in {"sleeping", "pinging"} /\ task.prev # "failed")
                   => task.paused = 0

C4_Witness ==
    \E t \in Tasks : tasks[t].pc = "pinging" /\ tasks[t].prev = "failed"

\* C5: every sampled interval is an integer of 420..720, a ping is issued
\* only after that interval has been slept in full, and two pings are never
\* issued less than 420 seconds apart.
C5_Interval ==
    \A t \in Tasks :
        LET task == tasks[t]
        IN  /\ task.pc \in {"sleeping", "pinging"}
                   => task.interval \in JitterMin..JitterMax
            /\ task.pc = "pinging"
                   => /\ task.slept = task.interval
                      /\ task.prev # "none" => task.gap >= JitterMin

C5_Witness ==
    \E t \in Tasks :
        /\ tasks[t].pc = "pinging"
        /\ tasks[t].prev = "ok"
        /\ tasks[t].gap = JitterMin

CancelPendingIn(states) ==
    \E t \in Tasks : tasks[t].cancelledIn \in states /\ ~Done(t)

CancelledIn(states) ==
    \E t \in Tasks : tasks[t].cancelledIn \in states /\ tasks[t].pc = "cancelled"

\* C6: a task cancelled while suspended in its jittered sleep issues no
\* further ping (it leaves the sleep only by ending), and it does end.
C6_CancelInSleep ==
    /\ [][\A t \in Tasks :
             tasks[t].cancelledIn = "sleeping"
                 => tasks'[t].pc \in {"sleeping", "cancelled"}]_vars
    /\ CancelPendingIn({"sleeping"}) ~> CancelledIn({"sleeping"})

C6_Witness == CancelledIn({"sleeping"})

\* C7: shutdown requests the cancellation and is complete only when the
\* keep-alive task has ended; once begun, it completes.
C7_Shutdown ==
    /\ [](lifespan_pc \in {"awaiting", "done"}
              => /\ ping_task \in Tasks
                 /\ tasks[ping_task].cancelRequested)
    /\ [](lifespan_pc = "done" => Done(ping_task))
    /\ [](lifespan_pc # "failed")
    /\ (lifespan_pc = "awaiting") ~> (lifespan_pc = "done")

C7_Witness ==
    /\ lifespan_pc = "done"
    /\ CancelledIn({"pausing"})

\* C8: at most one keep-alive task exists and is active, it is created by the
\* startup and by nothing else, and at most one ping is in flight, however
\* many requests are handled.
C8_SingleTask ==
    /\ Len(tasks) <= 1
    /\ lifespan_pc = "start" => Len(tasks) = 0
    /\ Cardinality({t \in Tasks : ~Done(t)}) <= 1
    /\ Cardinality({t \in Tasks : tasks[t].pc = "pinging"}) <= 1

C8_Witness ==
    /\ ProtectedHandled
    /\ response.http.status = 200
    /\ \E t \in Tasks : tasks[t].pc = "pinging" /\ tasks[t].prev # "none"

\* C9 as claimed: the keep-alive task is created only once the server is
\* ready to accept connections.
C9_CreatedAfterReady ==
    (lifespan_pc = "yielded" /\ Len(tasks) > 0) => serverReady

\* C9 as amended: the keep-alive task is created by the startup, before the
\* server is ready to accept connections, and shutdown ends it.
C9_CreatedBeforeReady ==
    /\ serverReady => (ping_task \in Tasks /\ lifespan_pc = "yielded")
    /\ lifespan_pc # "start" => ping_task \in Tasks
    /\ lifespan_pc = "done" => tasks[ping_task].pc = "cancelled"

C9_Witness ==
    /\ ~serverReady
    /\ lifespan_pc = "yielded"
    /\ \E t \in Tasks : tasks[t].pc = "sleeping"

\* C10: a cancellation is never taken for a ping failure: once cancellation
\* has been requested the task begins no pause, no sleep and no ping, and a
\* task cancelled during the ping or the 300-second pause ends.
C10_CancelNotFailure ==
    /\ [][\A t \in Tasks :
             tasks[t].cancelRequested
                 => /\ tasks'[t].pc \in {tasks[t].pc, "cancelled"}
                    /\ tasks'[t].prev = tasks[t].prev]_vars
    /\ CancelPendingIn({"pinging", "pausing"}) ~> CancelledIn({"pinging", "pausing"})

C10_Witness == CancelledIn({"pinging"})

=============================================================================
